---- MODULE Spec2Model ----
(***************************************************************************)
(* Model of src/main.py: the retention tool for Proxmox vzdump archives.   *)
(* One invocation of main() is a sequential pass                           *)
(*     check directory -> glob + parse + group -> sort + select -> delete  *)
(* and the model runs two invocations in a row over the same directory     *)
(* with the same --keep (the --execute flag is chosen per invocation).     *)
(*                                                                         *)
(* A file name is a record: the fields the regular expression of           *)
(* parse_backup_filename looks at, and the list of dot-separated           *)
(* extensions that follow them ("vma", "zst", "log", "notes").             *)
(* The directory is the sequence of its entries in the order the           *)
(* operating system enumerates them (glob keeps that order).               *)
(***************************************************************************)
EXTENDS Integers, Sequences, FiniteSets, TLC

(* Bounds of the model. *)
MaxFiles == 3
MaxKeep == 2

(***************************************************************************)
(* File names                                                              *)
(***************************************************************************)
FileName(tool, vm_type, vm_id, date, time, ext) ==
    [tool |-> tool, vm_type |-> vm_type, vm_id |-> vm_id,
     date |-> date, time |-> time, ext |-> ext]

Entry(name, size, isdir) == [name |-> name, size |-> size, isdir |-> isdir]

(* ".vma.zst", the text of line 21 and the tail of the pattern of line 113. *)
ArchiveSuffix == <<"vma", "zst">>

(* vzdump-qemu-100-2025_01_01-01_00_00 *)
StemA1 == [tool |-> "vzdump", vm_type |-> "qemu", vm_id |-> <<1, 0, 0>>,
           date |-> <<2025, 1, 1>>, time |-> <<1, 0, 0>>]

WithExt(stem, ext) ==
    FileName(stem.tool, stem.vm_type, stem.vm_id, stem.date, stem.time, ext)

(* The directory entries the model draws directory contents from.          *)
(*   A1   vzdump-qemu-100-2025_01_01-01_00_00.vma.zst                      *)
(*   A1d  vzdump-qemu-100-2025_01_01-01_00_00.vma.zst.vma.zst              *)
(*   A2   vzdump-qemu-100-2024_12_31-23_59_59.vma.zst   (older than A1)    *)
(*   A3   vzdump-lxc-0100-2025_01_02-00_00_00.vma.zst   (VM 100, newest)   *)
(*   B1   vzdump-qemu-101-2025_01_01-01_00_00.vma.zst   (another VM)       *)
(*   D1   vzdump-qemu-100-2024_02_29-00_00_00.vma.zst   (a directory)      *)
(*   M1   vzdump-qemu-100-2025_02_30-01_00_00.vma.zst   (no such day)      *)
(*   N1   backup-qemu-100-2025_01_01-01_00_00.vma.zst   (no pattern match) *)
(*   L1   vzdump-qemu-100-2025_01_01-01_00_00.log                          *)
(*   T1   vzdump-qemu-100-2025_01_01-01_00_00.vma.zst.notes                *)
(* Sizes are distinct powers of two, so a byte total names the entries it  *)
(* counts.                                                                 *)
A1 == WithExt(StemA1, ArchiveSuffix)
A1d == WithExt(StemA1, ArchiveSuffix \o ArchiveSuffix)
A2 == FileName("vzdump", "qemu", <<1, 0, 0>>, <<2024, 12, 31>>, <<23, 59, 59>>,
               ArchiveSuffix)
A3 == FileName("vzdump", "lxc", <<0, 1, 0, 0>>, <<2025, 1, 2>>, <<0, 0, 0>>,
               ArchiveSuffix)
B1 == FileName("vzdump", "qemu", <<1, 0, 1>>, <<2025, 1, 1>>, <<1, 0, 0>>,
               ArchiveSuffix)
D1 == FileName("vzdump", "qemu", <<1, 0, 0>>, <<2024, 2, 29>>, <<0, 0, 0>>,
               ArchiveSuffix)
M1 == FileName("vzdump", "qemu", <<1, 0, 0>>, <<2025, 2, 30>>, <<1, 0, 0>>,
               ArchiveSuffix)
N1 == FileName("backup", "qemu", <<1, 0, 0>>, <<2025, 1, 1>>, <<1, 0, 0>>,
               ArchiveSuffix)
L1 == WithExt(StemA1, <<"log">>)
T1 == WithExt(StemA1, ArchiveSuffix \o <<"notes">>)

Pool ==
    { Entry(A1, 1, FALSE), Entry(A1d, 2, FALSE), Entry(A2, 4, FALSE),
      Entry(A3, 8, FALSE), Entry(B1, 16, FALSE), Entry(D1, 32, TRUE),
      Entry(M1, 64, FALSE), Entry(N1, 128, FALSE), Entry(L1, 256, FALSE),
      Entry(T1, 512, FALSE) }

(* --keep values handed to argparse (type=int accepts negative numbers). *)
KeepCounts == (0 - 2) .. MaxKeep

(***************************************************************************)
(* Filesystem primitives over the directory (pathlib: exists, stat,        *)
(* unlink, glob).                                                          *)
(***************************************************************************)
Names(dir) == { dir[i].name : i \in 1..Len(dir) }

Exists(dir, name) == name \in Names(dir)

StatSize(dir, name) ==
    LET i == CHOOSE j \in 1..Len(dir) : dir[j].name = name IN dir[i].size

IsDir(dir, name) == \E i \in 1..Len(dir) : dir[i].name = name /\ dir[i].isdir

(* unlink() of a directory raises (IsADirectoryError / PermissionError). *)
UnlinkRaises(dir, name) == IsDir(dir, name)

Removed(dir, name) == SelectSeq(dir, LAMBDA e : e.name # name)

EndsWith(s, suffix) ==
    /\ Len(s) >= Len(suffix)
    /\ SubSeq(s, Len(s) - Len(suffix) + 1, Len(s)) = suffix

(* backup_path.glob("*.vma.zst"): the names, in directory order. *)
Glob(dir) ==
    LET hits == SelectSeq(dir, LAMBDA e : EndsWith(e.name.ext, ArchiveSuffix))
    IN  [i \in 1..Len(hits) |-> hits[i].name]

(***************************************************************************)
(* delete_backup_files                                                     *)
(***************************************************************************)
(* str.replace(old, ''): every non-overlapping occurrence, left to right. *)
RECURSIVE StrReplace(_, _)
StrReplace(s, old) ==
    IF Len(s) < Len(old) THEN s
    ELSE IF SubSeq(s, 1, Len(old)) = old
         THEN StrReplace(SubSeq(s, Len(old) + 1, Len(s)), old)
         ELSE <<Head(s)>> \o StrReplace(Tail(s), old)

base_name(backup_file) ==
    [backup_file EXCEPT !.ext = StrReplace(backup_file.ext, ArchiveSuffix)]

related_files(backup_file) ==
    << backup_file,
       [base_name(backup_file) EXCEPT !.ext = @ \o <<"log">>],
       [backup_file EXCEPT !.ext = @ \o <<"notes">>] >>

(* Mutation of DeleteStep: the dry_run test of line 36 is lost and the    *)
(* entry is unlinked in either mode.                                      *)
DeleteStepIgnoringDryRun(st, file, dry_run) ==
    IF st.raised \/ ~Exists(st.dir, file) THEN st
    ELSE LET counted == [st EXCEPT !.total_size = @ + StatSize(st.dir, file),
                                   !.lines = Append(@, [dry |-> dry_run,
                                                        name |-> file])]
         IN  IF UnlinkRaises(st.dir, file)
             THEN [counted EXCEPT !.raised = TRUE]
             ELSE [counted EXCEPT !.dir = Removed(@, file)]

(* One iteration of the loop of lines 31-40 over the call's state        *)
(* st = [dir, total_size, lines, raised].                                *)
DeleteStep(st, file, dry_run) ==
    IF st.raised \/ ~Exists(st.dir, file) THEN st
    ELSE LET counted == [st EXCEPT !.total_size = @ + StatSize(st.dir, file),
                                   !.lines = Append(@, [dry |-> dry_run,
                                                        name |-> file])]
         IN  IF dry_run THEN counted
             ELSE IF UnlinkRaises(st.dir, file)
                  THEN [counted EXCEPT !.raised = TRUE]
                  ELSE [counted EXCEPT !.dir = Removed(@, file)]

(* Mutation of delete_backup_files: the loop ends at the first candidate  *)
(* that does not exist instead of skipping it.                            *)
delete_backup_files_StopAtMissing(backup_file, dry_run, dir) ==
    LET files == related_files(backup_file)
        s0 == [dir |-> dir, total_size |-> 0, lines |-> <<>>, raised |-> FALSE]
        s1 == DeleteStep(s0, files[1], dry_run)
        s2 == DeleteStep(s1, files[2], dry_run)
    IN  IF ~Exists(dir, files[1]) THEN s0
        ELSE IF ~Exists(s1.dir, files[2]) THEN s1
        ELSE DeleteStep(s2, files[3], dry_run)

(* The call: the directory after it, the value returned, the lines        *)
(* printed, and whether unlink raised (then nothing is returned).         *)
delete_backup_files(backup_file, dry_run, dir) ==
    LET files == related_files(backup_file)
        s0 == [dir |-> dir, total_size |-> 0, lines |-> <<>>, raised |-> FALSE]
        s1 == DeleteStep(s0, files[1], dry_run)
        s2 == DeleteStep(s1, files[2], dry_run)
    IN  DeleteStep(s2, files[3], dry_run)

(***************************************************************************)
(* parse_backup_filename                                                   *)
(***************************************************************************)
(* re.match of line 48-50: anchored at the start, "vzdump-", \w+, \d+ and *)
(* the six fixed-width numbers.                                           *)
PatternMatches(filename) ==
    /\ filename.tool = "vzdump"
    /\ filename.vm_type # ""
    /\ Len(filename.vm_id) >= 1
    /\ filename.date[1] \in 0..9999
    /\ \A i \in 2..3 : filename.date[i] \in 0..99
    /\ \A i \in 1..3 : filename.time[i] \in 0..99

(* int() of a string of decimal digits. *)
RECURSIVE ToInt(_)
ToInt(digits) ==
    IF digits = <<>> THEN 0
    ELSE 10 * ToInt(SubSeq(digits, 1, Len(digits) - 1)) + digits[Len(digits)]

IsLeap(year) == year % 4 = 0 /\ (year % 100 # 0 \/ year % 400 = 0)

DaysInMonth(year, month) ==
    IF month = 2 THEN (IF IsLeap(year) THEN 29 ELSE 28)
    ELSE IF month \in {4, 6, 9, 11} THEN 30 ELSE 31

(* datetime(year, month, day, hour, minute, second) raises ValueError    *)
(* outside these ranges.                                                  *)
DatetimeValid(date, time) ==
    /\ date[1] \in 1..9999
    /\ date[2] \in 1..12
    /\ date[3] \in 1..DaysInMonth(date[1], date[2])
    /\ time[1] \in 0..23
    /\ time[2] \in 0..59
    /\ time[3] \in 0..59

NoInfo == [status |-> "None", vm_type |-> "", vm_id |-> 0, timestamp |-> <<>>]

parse_backup_filename(filename) ==
    IF ~PatternMatches(filename) THEN NoInfo
    ELSE IF ~DatetimeValid(filename.date, filename.time)
         THEN [NoInfo EXCEPT !.status = "ValueError"]
         ELSE [status |-> "ok", vm_type |-> filename.vm_type,
               vm_id |-> ToInt(filename.vm_id),
               timestamp |-> filename.date \o filename.time]

(* datetime.__lt__: year, month, day, hour, minute, second in turn. *)
TimestampLess(a, b) ==
    \E i \in 1..Len(a) : a[i] < b[i] /\ \A j \in 1..(i - 1) : a[j] = b[j]

(***************************************************************************)
(* Grouping, sorting and selection (main, lines 116-138)                   *)
(***************************************************************************)
Backup(file) == [file |-> file, info |-> parse_backup_filename(file)]

(* backups_by_vm[vm_id].append(...): a dict keeps its keys in the order  *)
(* they were first inserted; it is a sequence of [vm_id, backups].       *)
AppendBackup(by_vm, b) ==
    IF \E g \in 1..Len(by_vm) : by_vm[g].vm_id = b.info.vm_id
    THEN [g \in 1..Len(by_vm) |->
            IF by_vm[g].vm_id = b.info.vm_id
            THEN [by_vm[g] EXCEPT !.backups = Append(@, b)]
            ELSE by_vm[g]]
    ELSE Append(by_vm, [vm_id |-> b.info.vm_id, backups |-> <<b>>])

(* The loop of lines 119-125 over files[1..n]; an entry whose parse       *)
(* returns None is skipped.                                               *)
RECURSIVE GroupByVm(_, _)
GroupByVm(files, n) ==
    IF n = 0 THEN <<>>
    ELSE LET b == Backup(files[n])
             rest == GroupByVm(files, n - 1)
         IN  IF b.info.status = "ok" THEN AppendBackup(rest, b) ELSE rest

ParseRaises(files) ==
    \E i \in 1..Len(files) : parse_backup_filename(files[i]).status = "ValueError"

(* The number of entries the loop of lines 119-125 gets through: all of  *)
(* them, or those before the first one on which datetime raises.         *)
ParsedBeforeRaise(files) ==
    LET raising == { i \in 1..Len(files) :
                       parse_backup_filename(files[i]).status = "ValueError" }
    IN  IF raising = {} THEN Len(files)
        ELSE (CHOOSE i \in raising : \A j \in raising : i <= j) - 1

(* list.sort(key=timestamp, reverse=True): descending, and stable (equal *)
(* timestamps keep the order they had).                                   *)
InsertDescending(sorted, b) ==
    LET before == { i \in 1..Len(sorted) :
                      ~TimestampLess(sorted[i].info.timestamp, b.info.timestamp) }
        k == Cardinality(before)
    IN  SubSeq(sorted, 1, k) \o <<b>> \o SubSeq(sorted, k + 1, Len(sorted))

(* Mutation of SortNewestFirst: reverse=True is lost, the sort ascends. *)
InsertAscending(sorted, b) ==
    LET before == { i \in 1..Len(sorted) :
                      ~TimestampLess(b.info.timestamp, sorted[i].info.timestamp) }
        k == Cardinality(before)
    IN  SubSeq(sorted, 1, k) \o <<b>> \o SubSeq(sorted, k + 1, Len(sorted))

RECURSIVE SortOldestFirst(_, _)
SortOldestFirst(backups, n) ==
    IF n = 0 THEN <<>>
    ELSE InsertAscending(SortOldestFirst(backups, n - 1), backups[n])

RECURSIVE SortNewestFirst(_, _)
SortNewestFirst(backups, n) ==
    IF n = 0 THEN <<>>
    ELSE InsertDescending(SortNewestFirst(backups, n - 1), backups[n])

(* Mutation of SliceFrom: the slice starts one position late. *)
SliceFromNext(backups, keep) ==
    LET n == Len(backups)
        start == IF keep >= 0 THEN keep + 1
                 ELSE IF n + keep > 0 THEN n + keep + 1 ELSE 1
    IN  SubSeq(backups, start + 1, n)

(* backups[keep:], with Python's meaning of a negative start. *)
SliceFrom(backups, keep) ==
    LET n == Len(backups)
        start == IF keep >= 0 THEN keep
                 ELSE IF n + keep > 0 THEN n + keep ELSE 0
    IN  SubSeq(backups, start + 1, n)

(* Lines 137-138 for one sorted group. *)
OldOf(backups, keepCount) ==
    IF Len(backups) > keepCount THEN SliceFrom(backups, keepCount) ELSE <<>>

SortedGroups(by_vm) ==
    [g \in 1..Len(by_vm) |->
        [by_vm[g] EXCEPT !.backups = SortNewestFirst(@, Len(@))]]

RECURSIVE SelectOld(_, _, _)
SelectOld(by_vm, n, keepCount) ==
    IF n = 0 THEN <<>>
    ELSE SelectOld(by_vm, n - 1, keepCount) \o OldOf(by_vm[n].backups, keepCount)

(***************************************************************************)
(* State                                                                   *)
(***************************************************************************)
VARIABLES
    dirKind,        \* "dir", "missing" or "file": what backup_dir names
    fs,             \* the directory's entries, in enumeration order
    keep,           \* args.keep
    execute,        \* args.execute of the current invocation
    run,            \* "first" or "second" invocation
    pc,             \* position in main / __main__
    backups_by_vm,  \* the dict of lines 116-125
    old_backups,    \* the list of lines 132-138
    idx,            \* position of the loop of line 145 in old_backups
    total_freed,    \* line 143
    printed,        \* the "Удалить:" / "Удаляю:" lines written so far
    ret,            \* what main() returned: "None" or "1" ("" before)
    exc,            \* the exception that left main(): "" when none
    exitStatus,     \* the process's exit status (-1 while running)
    fsStart,        \* the directory when the current invocation began
    call,           \* the last call of delete_backup_files
    prev            \* the outcome of the first invocation, for the second

vars == <<dirKind, fs, keep, execute, run, pc, backups_by_vm, old_backups, idx,
          total_freed, printed, ret, exc, exitStatus, fsStart, call, prev>>

NoCall == [made |-> FALSE, file |-> A1, dry_run |-> TRUE, before |-> <<>>,
           raised |-> FALSE, freed |-> 0]

NoPrev == [execute |-> FALSE, keep |-> 0, total_freed |-> 0, printed |-> <<>>,
           old_backups |-> <<>>, ret |-> "", exc |-> "", exitStatus |-> -1,
           fsStart |-> <<>>, fsEnd |-> <<>>]

(* Directory contents: up to MaxFiles entries of Pool, in any order. *)
Directories ==
    UNION { { d \in [1..n -> Pool] : \A i, j \in 1..n : i # j => d[i] # d[j] }
            : n \in 0..MaxFiles }

Init ==
    /\ dirKind \in {"dir", "missing", "file"}
    /\ fs \in Directories
    /\ dirKind # "dir" => fs = <<>>
    /\ keep \in KeepCounts
    /\ execute \in BOOLEAN
    /\ run = "first"
    /\ pc = "check_dir"
    /\ backups_by_vm = <<>>
    /\ old_backups = <<>>
    /\ idx = 1
    /\ total_freed = 0
    /\ printed = <<>>
    /\ ret = ""
    /\ exc = ""
    /\ exitStatus = -1
    /\ fsStart = fs
    /\ call = NoCall
    /\ prev = NoPrev

(***************************************************************************)
(* Actions                                                                 *)
(***************************************************************************)
(* Lines 103-105. *)
DirMissing ==
    /\ pc = "check_dir"
    /\ dirKind = "missing"
    /\ ret' = "1"
    /\ pc' = "returned"
    /\ UNCHANGED <<dirKind, fs, keep, execute, run, backups_by_vm, old_backups,
                   idx, total_freed, printed, exc, exitStatus, fsStart, call, prev>>

(* Lines 107-109. *)
NotADirectory ==
    /\ pc = "check_dir"
    /\ dirKind = "file"
    /\ ret' = "1"
    /\ pc' = "returned"
    /\ UNCHANGED <<dirKind, fs, keep, execute, run, backups_by_vm, old_backups,
                   idx, total_freed, printed, exc, exitStatus, fsStart, call, prev>>

(* Lines 113-125: list, parse and group; datetime's ValueError is not     *)
(* caught and leaves main(), the dict holding what was appended before    *)
(* the entry that raised.                                                 *)
Scan ==
    /\ pc = "check_dir"
    /\ dirKind = "dir"
    /\ LET backup_files == Glob(fs)
       IN  /\ backups_by_vm' =
                  GroupByVm(backup_files, ParsedBeforeRaise(backup_files))
           /\ IF ParseRaises(backup_files)
              THEN /\ exc' = "ValueError"
                   /\ pc' = "raised"
              ELSE /\ pc' = "plan"
                   /\ UNCHANGED exc
    /\ UNCHANGED <<dirKind, fs, keep, execute, run, old_backups, idx, total_freed,
                   printed, ret, exitStatus, fsStart, call, prev>>

(* Lines 132-143. *)
Plan ==
    /\ pc = "plan"
    /\ backups_by_vm' = SortedGroups(backups_by_vm)
    /\ old_backups' = SelectOld(backups_by_vm', Len(backups_by_vm'), keep)
    /\ idx' = 1
    /\ total_freed' = 0
    /\ pc' = "delete"
    /\ UNCHANGED <<dirKind, fs, keep, execute, run, printed, ret, exc, exitStatus,
                   fsStart, call, prev>>

(* Lines 145-152, one iteration: unlink's exception is not caught, so it  *)
(* leaves main() before total_freed is updated.                           *)
DeleteOne ==
    /\ pc = "delete"
    /\ idx <= Len(old_backups)
    /\ LET file == old_backups[idx].file
           res == delete_backup_files(file, ~execute, fs)
       IN  /\ fs' = res.dir
           /\ printed' = printed \o res.lines
           /\ call' = [made |-> TRUE, file |-> file, dry_run |-> ~execute,
                       before |-> fs, raised |-> res.raised,
                       freed |-> res.total_size]
           /\ IF res.raised
              THEN /\ exc' = "OSError"
                   /\ pc' = "raised"
                   /\ UNCHANGED <<total_freed, idx>>
              ELSE /\ total_freed' = total_freed + res.total_size
                   /\ idx' = idx + 1
                   /\ UNCHANGED <<exc, pc>>
    /\ UNCHANGED <<dirKind, keep, execute, run, backups_by_vm, old_backups, ret,
                   exitStatus, fsStart, prev>>

(* Lines 154-164: the report; main() falls off its end. *)
Finish ==
    /\ pc = "delete"
    /\ idx > Len(old_backups)
    /\ ret' = "None"
    /\ pc' = "returned"
    /\ UNCHANGED <<dirKind, fs, keep, execute, run, backups_by_vm, old_backups,
                   idx, total_freed, printed, exc, exitStatus, fsStart, call, prev>>

(* Lines 166-167: main()'s value is dropped, so a return ends the process *)
(* with status 0; an uncaught exception ends it with status 1.            *)
ProcessExit ==
    /\ pc \in {"returned", "raised"}
    /\ exitStatus' = IF pc = "raised" THEN 1 ELSE 0
    /\ pc' = "exited"
    /\ UNCHANGED <<dirKind, fs, keep, execute, run, backups_by_vm, old_backups,
                   idx, total_freed, printed, ret, exc, fsStart, call, prev>>

(* The tool is started again on the same directory with the same --keep. *)
Rerun ==
    /\ pc = "exited"
    /\ run = "first"
    /\ run' = "second"
    /\ prev' = [execute |-> execute, keep |-> keep, total_freed |-> total_freed,
                printed |-> printed, old_backups |-> old_backups, ret |-> ret,
                exc |-> exc, exitStatus |-> exitStatus, fsStart |-> fsStart,
                fsEnd |-> fs]
    /\ execute' \in BOOLEAN
    /\ pc' = "check_dir"
    /\ backups_by_vm' = <<>>
    /\ old_backups' = <<>>
    /\ idx' = 1
    /\ total_freed' = 0
    /\ printed' = <<>>
    /\ ret' = ""
    /\ exc' = ""
    /\ exitStatus' = -1
    /\ fsStart' = fs
    /\ call' = NoCall
    /\ UNCHANGED <<dirKind, fs, keep>>

Next ==
    \/ DirMissing
    \/ NotADirectory
    \/ Scan
    \/ Plan
    \/ DeleteOne
    \/ Finish
    \/ ProcessExit
    \/ Rerun

Spec == Init /\ [][Next]_vars

(***************************************************************************)
(* Vocabulary of the properties                                            *)
(***************************************************************************)
(* The archives of the directory that the listing and the parser accept. *)
ParsedArchives(dir) ==
    { n \in Names(dir) : /\ EndsWith(n.ext, ArchiveSuffix)
                         /\ parse_backup_filename(n).status = "ok" }

MalformedArchives(dir) ==
    { n \in Names(dir) : /\ EndsWith(n.ext, ArchiveSuffix)
                         /\ parse_backup_filename(n).status = "ValueError" }

EntityIds(dir) == { parse_backup_filename(n).vm_id : n \in ParsedArchives(dir) }

EntityGroup(dir, id) ==
    { n \in ParsedArchives(dir) : parse_backup_filename(n).vm_id = id }

TimestampOf(n) == parse_backup_filename(n).timestamp

Selected == { old_backups[i].file : i \in 1..Len(old_backups) }

Grouped ==
    UNION { { backups_by_vm[g].backups[i].file :
                i \in 1..Len(backups_by_vm[g].backups) }
            : g \in 1..Len(backups_by_vm) }

(* The selection of lines 132-138 has been computed in this invocation. *)
Planned == pc = "delete" \/ ret = "None" \/ exc = "OSError"

Max(a, b) == IF a > b THEN a ELSE b
Min(a, b) == IF a < b THEN a ELSE b

SizeOrZero(dir, name) == IF Exists(dir, name) THEN StatSize(dir, name) ELSE 0

RECURSIVE SizeOfGone(_, _, _)
SizeOfGone(before, after, n) ==
    IF n = 0 THEN 0
    ELSE SizeOfGone(before, after, n - 1)
         + (IF Exists(after, before[n].name) THEN 0 ELSE before[n].size)

LineNames(lines) == [i \in 1..Len(lines) |-> lines[i].name]

UnlinkedNames == { printed[i].name : i \in { j \in 1..Len(printed) : ~printed[j].dry } }

(***************************************************************************)
(* Properties                                                              *)
(***************************************************************************)
(* C1: with keepCount k >= 0, an entity group of n parsed archives gives  *)
(* exactly max(0, n - k) artifacts to the removal selection, min(n, k)    *)
(* are retained, and no selected artifact is newer than a retained one of *)
(* the same entity.                                                       *)
C1_KeepNewest ==
    (Planned /\ keep >= 0) =>
        /\ Selected \subseteq ParsedArchives(fsStart)
        /\ Cardinality(Selected) = Len(old_backups)
        /\ \A id \in EntityIds(fsStart) :
             LET group == EntityGroup(fsStart, id)
                 gone == group \cap Selected
                 kept == group \ Selected
             IN  /\ Cardinality(gone) = Max(0, Cardinality(group) - keep)
                 /\ Cardinality(kept) = Min(Cardinality(group), keep)
                 /\ \A s \in gone, r \in kept :
                      ~TimestampLess(TimestampOf(r), TimestampOf(s))

C1_Witness ==
    /\ pc = "delete"
    /\ keep = 1
    /\ Len(old_backups) = 2
    /\ \E id \in EntityIds(fsStart) : Cardinality(EntityGroup(fsStart, id)) = 3

(* C2: without --execute the directory after the run is the directory     *)
(* before it; an entry disappears only with --execute, and only an entry  *)
(* the run found to exist and reported as deleted.                        *)
C2_SimulateRemovesNothing ==
    /\ ~execute => fs = fsStart
    /\ \A i \in 1..Len(fs) : \E j \in 1..Len(fsStart) : fs[i] = fsStart[j]
    /\ (Names(fsStart) \ Names(fs)) \subseteq UnlinkedNames

C2_Witness ==
    /\ pc = "exited"
    /\ ~execute
    /\ Len(old_backups) > 0
    /\ total_freed > 0
    /\ fs = fsStart

(* C3: a simulate run followed by a commit run over the same directory    *)
(* with the same keepCount reports the same byte total and the same list  *)
(* of entries to delete (both runs ending without an exception).          *)
C3_SimulateThenCommitAgree ==
    (/\ run = "second" /\ pc = "exited" /\ keep >= 0
     /\ ~prev.execute /\ execute
     /\ prev.exc = "" /\ exc = "") =>
        /\ total_freed = prev.total_freed
        /\ LineNames(printed) = LineNames(prev.printed)

(* C4: a negative keepCount is rejected before planning: nothing is       *)
(* selected and nothing is deleted.                                       *)
C4_NegativeKeepRejected ==
    keep < 0 => (old_backups = <<>> /\ fs = fsStart)

(* C5: when the target directory is missing or is not a directory, the    *)
(* process ends with a non-zero exit status and changes nothing.          *)
C5_MissingDirExitsNonZero ==
    (pc = "exited" /\ dirKind # "dir") => (exitStatus # 0 /\ fs = fsStart)

(* C6: an archive name that matches the pattern but holds an invalid      *)
(* calendar date is skipped alone: the run is not aborted and the other   *)
(* archives are still parsed and grouped.                                 *)
C6_MalformedEntrySkipped ==
    (/\ dirKind = "dir" /\ pc # "check_dir" /\ keep >= 0
     /\ MalformedArchives(fsStart) # {}) =>
        /\ exc # "ValueError"
        /\ Grouped = ParsedArchives(fsStart)

(* C7: with --execute, a delete that fails on one entry does not abort    *)
(* the run: every selected artifact is still processed, and the byte      *)
(* total counts only the entries actually deleted.                        *)
C7_DeleteFailureDoesNotAbort ==
    (pc = "exited" /\ execute /\ keep >= 0 /\ Planned) =>
        /\ idx > Len(old_backups)
        /\ total_freed = SizeOfGone(fsStart, fs, Len(fsStart))

(* C8: for one selected artifact, the deletion step returns the sum of    *)
(* the sizes of those of its three candidate entries (archive, log,       *)
(* notes) that exist; a missing candidate adds nothing and is no error.   *)
C8_FreedIsSumOfExisting ==
    (call.made /\ ~call.raised) =>
        LET files == related_files(call.file)
        IN  call.freed = SizeOrZero(call.before, files[1])
                         + SizeOrZero(call.before, files[2])
                         + SizeOrZero(call.before, files[3])

C8_Witness ==
    /\ call.made
    /\ ~call.raised
    /\ call.file = A1
    /\ Exists(call.before, L1)
    /\ ~Exists(call.before, T1)
    /\ call.freed = StatSize(call.before, A1) + StatSize(call.before, L1)

(* C9: with --execute and keepCount >= 0, no run deletes the archive, log *)
(* or notes of an artifact the planner retained.                          *)
C9_RetainedCompanionsSurvive ==
    (execute /\ keep >= 0 /\ Planned) =>
        \A r \in ParsedArchives(fsStart) \ Selected :
            \A i \in 1..3 :
                Exists(fsStart, related_files(r)[i]) => Exists(fs, related_files(r)[i])

(* C10: after a commit run with keepCount k >= 0 that ended without a     *)
(* failure, every entity has at most k parseable archives left, and the   *)
(* next run with the same k selects nothing and deletes nothing.          *)
C10_SecondRunSelectsNothing ==
    (/\ run = "second" /\ keep >= 0
     /\ prev.execute /\ prev.ret = "None" /\ prev.exc = "") =>
        /\ \A id \in EntityIds(fsStart) :
             Cardinality(EntityGroup(fsStart, id)) <= keep
        /\ old_backups = <<>>
        /\ printed = <<>>
        /\ total_freed = 0
        /\ fs = fsStart

C10_Witness ==
    /\ run = "second"
    /\ pc = "exited"
    /\ keep >= 1
    /\ prev.execute
    /\ prev.ret = "None"
    /\ Len(prev.old_backups) > 0
    /\ ret = "None"
    /\ ParsedArchives(fs) # {}

====
